---- MODULE Spec2Model ----
(***************************************************************************)
(* Two-player Texas Hold'em server (src/server/server.ts): the game        *)
(* object held in the `games` map, the WebSocket message handlers          *)
(* createGame / joinGame / startGame / action, and the helpers they call   *)
(* (card utilities, hand evaluator, round controller, phase advancement). *)
(*                                                                         *)
(* Seats are 0-based as in the code (activePlayerIndex, findIndex); the    *)
(* sequence `players` is 1-based, so seat i is players[i + 1].             *)
(* Player.isActive is set to true on creation and never written again, so  *)
(* the filters `!p.folded && p.isActive` are modelled by isActive == TRUE. *)
(* Display-only fields (name, handType, allHands, minBet) are left out.    *)
(*                                                                         *)
(* Six specifications share the variables:                                 *)
(*   Spec         the server's handlers, each run to completion;           *)
(*   SessionSpec  the same handlers with their awaits on the Yellow        *)
(*                session (startPokerSession, settlePokerSession);         *)
(*   LocalSpec    the single-player game of useGame (src/unnamed/part_001);*)
(*   HandSpec     hands of two players with a Yellow session, played by    *)
(*                clients that act on the state broadcast to them;         *)
(*   HandLiveSpec the same hands with bets of half units and bets too      *)
(*                small to change a double, and fair awaits;               *)
(*   EvalSpec     calls of evaluateHand, of the server and of the script   *)
(*                scripts/poker-game.ts, on five to seven cards holding a  *)
(*                royal flush, a full house or a straight.                 *)
(***************************************************************************)
EXTENDS Integers, Sequences, FiniteSets, TLC

VARIABLES
  game, steps,        \* the server: the Game of the `games` map, messages counted
  local, cpuTimer,    \* the local game: the state of useGame, its pending CPU timer
  yellowSessionId,    \* game.yellowSessionId
  appSessionId,       \* the game's appSessionId in poker-yellow-service
  suspended,          \* handlers of the game waiting at an await, oldest first
  settlementLog,      \* what handleShowdownSettlement logged last
  evalInput, evalResult,  \* a call of evaluateHand: its arguments, its result
  scriptResult            \* the result of the script's evaluateHand for them

serverVars == <<game, steps>>
localVars == <<local, cpuTimer>>
sessionVars == <<yellowSessionId, appSessionId, suspended, settlementLog>>
evalVars == <<evalInput, evalResult, scriptResult>>

vars == <<serverVars, localVars, sessionVars, evalVars>>

(* ------------------------------ bounds -------------------------------- *)
\* number of distinct shuffles createDeck may return
NumShuffles == 2
\* bet amounts offered by clients are k * BetUnit for k in -1 .. MaxBetUnits
MaxBetUnits == 2
\* number of messages that change the game, counted in `steps`
MaxSteps == 6
\* the same count for the game that has a Yellow session
MaxSessionSteps == 5
\* number of cards the two cards beside a royal flush are drawn from
NumEvalExtras == 6

(* ------------------------- program constants --------------------------- *)
DefaultStack == 1000

BetUnit == DefaultStack \div 2

\* an optional number (the `amount?` of a payload): <<>> is undefined
Amounts == {<<>>} \cup {<<k * BetUnit>> : k \in -1 .. MaxBetUnits}

HostId == "P1"
GuestId == "P2"
PlayerIds == {HostId, GuestId, "PX"}
GameId == "G"
GameIds == {GameId, "GX"}
Actions == {"fold", "check", "bet", "nextRound"}

\* payloads of `action` messages: an amount is sent with a bet only; one
\* message stands for those to an unknown game, which all end at the lookup
ActionPayloads ==
  {[gameId |-> "GX", playerId |-> HostId, action |-> "check", amount |-> <<>>]}
  \cup {[gameId |-> GameId, playerId |-> p, action |-> a, amount |-> <<>>] :
          p \in PlayerIds, a \in Actions \ {"bet"}}
  \cup {[gameId |-> GameId, playerId |-> p, action |-> "bet", amount |-> m] :
          p \in PlayerIds, m \in Amounts}

\* payloads of `startGame` messages: the game and the sender
StartPayloads ==
  {[gameId |-> "GX", playerId |-> HostId]}
  \cup {[gameId |-> GameId, playerId |-> p] : p \in PlayerIds}

(* ---------------------------- card utilities --------------------------- *)
suits == <<"hearts", "diamonds", "clubs", "spades">>
ranks == <<"A", "K", "Q", "J", "10", "9", "8", "7", "6", "5", "4", "3", "2">>

\* A card is its position 1 .. 52 in the order the nested loops of createDeck
\* push the cards; cardSuit and cardRank give the two fields of that card.
DeckSize == Len(suits) * Len(ranks)
cardSuit(c) == suits[((c - 1) \div Len(ranks)) + 1]
cardRank(c) == ranks[((c - 1) % Len(ranks)) + 1]

\* the k-th result of deck.sort(() => Math.random() - 0.5): a permutation of
\* the pushed deck (position i holds card (2k+1) * i + 4k + 1 mod 52)
shuffle(k) ==
  [i \in 1 .. DeckSize |-> (((2 * k + 1) * i + 4 * k + 1) % DeckSize) + 1]

createDeck == {shuffle(k) : k \in 1 .. NumShuffles}

getCardValue(rank) ==
  CASE rank = "A" -> 14 [] rank = "K" -> 13 [] rank = "Q" -> 12
    [] rank = "J" -> 11 [] rank = "10" -> 10 [] rank = "9" -> 9
    [] rank = "8" -> 8 [] rank = "7" -> 7 [] rank = "6" -> 6
    [] rank = "5" -> 5 [] rank = "4" -> 4 [] rank = "3" -> 3
    [] rank = "2" -> 2

\* Array.prototype.pop: the last element and the remaining array
popCard(deck) == deck[Len(deck)]
popRest(deck) == SubSeq(deck, 1, Len(deck) - 1)

(* ---------------------------- hand evaluator --------------------------- *)
RECURSIVE seqMax(_)
seqMax(s) ==
  IF Len(s) = 1 THEN s[1]
  ELSE LET m == seqMax(Tail(s)) IN IF s[1] >= m THEN s[1] ELSE m

RECURSIVE removeOne(_, _)
removeOne(s, x) ==
  IF s = <<>> THEN <<>>
  ELSE IF s[1] = x THEN Tail(s) ELSE <<s[1]>> \o removeOne(Tail(s), x)

\* sort((a, b) => b - a)
RECURSIVE sortDesc(_)
sortDesc(s) ==
  IF s = <<>> THEN <<>>
  ELSE LET m == seqMax(s) IN <<m>> \o sortDesc(removeOne(s, m))

\* [...new Set(values)]: first occurrences, in order
RECURSIVE dedup(_)
dedup(s) ==
  IF s = <<>> THEN <<>>
  ELSE <<s[1]>> \o dedup(SelectSeq(Tail(s), LAMBDA x : x # s[1]))

seqIncludes(s, x) == \E i \in 1 .. Len(s) : s[i] = x

evaluateHand(hand, community) ==
  LET allCards == hand \o community
      n == Len(allCards)
      suitKeys == {cardSuit(allCards[i]) : i \in 1 .. n}
      rankCount(r) == Cardinality({i \in 1 .. n : cardRank(allCards[i]) = r})
      suitCount(t) == Cardinality({i \in 1 .. n : cardSuit(allCards[i]) = t})
      \* Object.values(rankCounts): the counts of the ranks present, then sorted
      counts == sortDesc(SelectSeq([i \in 1 .. Len(ranks) |-> rankCount(ranks[i])],
                                   LAMBDA c : c > 0))
      values == sortDesc([i \in 1 .. n |-> getCardValue(cardRank(allCards[i]))])
      isFlush == \E t \in suitKeys : suitCount(t) >= 5
      uniqueValues == dedup(values)
      loopStraight == \E i \in 1 .. (Len(uniqueValues) - 4) :
                        uniqueValues[i] - uniqueValues[i + 4] = 4
      isStraight == loopStraight
                    \/ (seqIncludes(uniqueValues, 14) /\ seqIncludes(uniqueValues, 2)
                        /\ seqIncludes(uniqueValues, 3) /\ seqIncludes(uniqueValues, 4)
                        /\ seqIncludes(uniqueValues, 5))
      c0 == IF Len(counts) >= 1 THEN counts[1] ELSE 0
      c1 == IF Len(counts) >= 2 THEN counts[2] ELSE 0
      v0 == values[1]
  IN  IF c0 = 4 THEN [score |-> 800000 + v0, handType |-> "Four of a Kind"]
      ELSE IF c0 = 3 /\ c1 = 2 THEN [score |-> 700000 + v0, handType |-> "Full House"]
      ELSE IF isFlush THEN [score |-> 600000 + v0, handType |-> "Flush"]
      ELSE IF isStraight THEN [score |-> 500000 + v0, handType |-> "Straight"]
      ELSE IF c0 = 3 THEN [score |-> 400000 + v0, handType |-> "Three of a Kind"]
      ELSE IF c0 = 2 /\ c1 = 2 THEN [score |-> 300000 + v0, handType |-> "Two Pair"]
      ELSE IF c0 = 2 THEN [score |-> 200000 + v0, handType |-> "Pair"]
      ELSE [score |-> 100000 + v0, handType |-> "High Card"]

(* ------------------------------ the game ------------------------------- *)
\* walletAddress is <<>> for null (no address in the payload)
newPlayer(id) ==
  [id |-> id, walletAddress |-> <<>>, chips |-> DefaultStack, bet |-> 0, roundBet |-> 0,
   hand |-> <<>>, folded |-> FALSE, actedThisRound |-> FALSE]

\* Player.isActive: true in both object literals, never assigned afterwards
isActive(p) == TRUE

\* seats (1-based positions in players) as an ordered list
seatSeq(ps) == [i \in 1 .. Len(ps) |-> i]

\* game.players.filter(p => !p.folded), as seats
notFolded(ps) == SelectSeq(seatSeq(ps), LAMBDA i : ~ps[i].folded)

\* game.players.filter(p => !p.folded && p.isActive), as seats
activeSeats(ps) == SelectSeq(seatSeq(ps), LAMBDA i : ~ps[i].folded /\ isActive(ps[i]))

\* dealCards: every player pops two cards, in seat order
RECURSIVE dealCardsFrom(_, _, _)
dealCardsFrom(ps, deck, i) ==
  IF i > Len(ps) THEN [players |-> ps, deck |-> deck]
  ELSE LET c1 == popCard(deck)
           d1 == popRest(deck)
           c2 == popCard(d1)
           d2 == popRest(d1)
       IN dealCardsFrom([ps EXCEPT ![i].hand = <<c1, c2>>], d2, i + 1)

dealCards(g) ==
  LET r == dealCardsFrom(g.players, g.deck, 1)
  IN [g EXCEPT !.players = r.players, !.deck = r.deck]

RECURSIVE dealCommunityCards(_, _)
dealCommunityCards(g, count) ==
  IF count <= 0 THEN g
  ELSE dealCommunityCards([g EXCEPT !.community = Append(@, popCard(g.deck)),
                                    !.deck = popRest(g.deck)], count - 1)

\* bestSeat with the comparison of the scores turned round
RECURSIVE bestSeat_lowerScore(_, _, _, _)
bestSeat_lowerScore(ps, community, act, n) ==
  IF n = 1 THEN act[1]
  ELSE LET w == bestSeat_lowerScore(ps, community, act, n - 1)
       IN IF evaluateHand(ps[act[n]].hand, community).score
               < evaluateHand(ps[w].hand, community).score
          THEN act[n] ELSE w

\* the loop of determineWinner over activePlayers[1 ..], n players examined
RECURSIVE bestSeat(_, _, _, _)
bestSeat(ps, community, act, n) ==
  IF n = 1 THEN act[1]
  ELSE LET w == bestSeat(ps, community, act, n - 1)
       IN IF evaluateHand(ps[act[n]].hand, community).score
               > evaluateHand(ps[w].hand, community).score
          THEN act[n] ELSE w

\* determineWinner: the winning seat; 0 when activePlayers is empty, where
\* the code reads `.hand` of undefined and throws a TypeError
determineWinner(ps, community) ==
  LET act == notFolded(ps)
  IN IF Len(act) = 0 THEN 0
     ELSE IF Len(act) = 1 THEN act[1]
     ELSE bestSeat(ps, community, act, Len(act))

\* allBetsMatched that compares the round bets only and overlooks
\* actedThisRound
allBetsMatched_betsOnly(g) ==
  LET ps == g.players
      act == activeSeats(ps)
      playersWithChips == SelectSeq(act, LAMBDA i : ps[i].chips > 0)
      betsMatch ==
        \A k \in 1 .. Len(playersWithChips) :
          ps[playersWithChips[k]].roundBet = ps[playersWithChips[1]].roundBet
  IN IF Len(act) <= 1 THEN TRUE
     ELSE IF Len(playersWithChips) = 0 THEN TRUE
     ELSE betsMatch

allBetsMatched(g) ==
  LET ps == g.players
      act == activeSeats(ps)
      playersWithChips == SelectSeq(act, LAMBDA i : ps[i].chips > 0)
      allAllIn == Len(playersWithChips) = 0
      playersWithChipsActed ==
        \A k \in 1 .. Len(playersWithChips) : ps[playersWithChips[k]].actedThisRound
      betsMatch ==
        \A k \in 1 .. Len(playersWithChips) :
          ps[playersWithChips[k]].roundBet = ps[playersWithChips[1]].roundBet
  IN IF Len(act) <= 1 THEN TRUE
     ELSE IF allAllIn THEN TRUE
     ELSE playersWithChipsActed /\ betsMatch

\* the while loop of advanceActivePlayer, skipping folded players only
RECURSIVE skipLoop_foldedOnly(_, _, _)
skipLoop_foldedOnly(ps, nextIndex, skipCount) ==
  IF ps[nextIndex + 1].folded /\ skipCount < Len(ps)
  THEN skipLoop_foldedOnly(ps, (nextIndex + 1) % Len(ps), skipCount + 1)
  ELSE <<nextIndex, skipCount>>

\* the while loop of advanceActivePlayer: <<nextIndex, skipCount>> on exit
RECURSIVE skipLoop(_, _, _)
skipLoop(ps, nextIndex, skipCount) ==
  IF (ps[nextIndex + 1].folded \/ ps[nextIndex + 1].chips = 0) /\ skipCount < Len(ps)
  THEN skipLoop(ps, (nextIndex + 1) % Len(ps), skipCount + 1)
  ELSE <<nextIndex, skipCount>>

advanceActivePlayer(g) ==
  LET ps == g.players
      act == notFolded(ps)
      r == skipLoop(ps, (g.activePlayerIndex + 1) % Len(ps), 0)
  IN IF Len(act) <= 1 THEN g
     ELSE IF r[2] >= Len(ps) THEN g
     ELSE [g EXCEPT !.activePlayerIndex = r[1]]

(* --------------------------- phase advancement ------------------------- *)
phases == <<"betting1", "flop", "betting2", "turn", "betting3", "river", "betting4", "showdown">>
bettingPhases == <<"betting1", "betting2", "betting3", "betting4">>

\* Array.prototype.indexOf, 0-based, -1 when absent
indexOf(s, x) ==
  IF \E i \in 1 .. Len(s) : s[i] = x
  THEN (CHOOSE i \in 1 .. Len(s) : s[i] = x /\ \A j \in 1 .. (i - 1) : s[j] # x) - 1
  ELSE -1

startsWithBetting(phase) == indexOf(bettingPhases, phase) # -1

resetRound(ps) ==
  [i \in 1 .. Len(ps) |-> [ps[i] EXCEPT !.roundBet = 0, !.actedThisRound = FALSE]]

\* winner resolution of advancePhase (both the all-in and the showdown
\* branch): winner.chips += game.pot, game.winner recorded, pot left as is.
\* With no non-folded player determineWinner throws and nothing is written.
awardPot(g) ==
  LET act == notFolded(g.players)
      w == IF Len(act) = 1 THEN act[1] ELSE determineWinner(g.players, g.community)
      winReason == IF Len(act) = 1 THEN "Everyone else folded" ELSE "Best hand"
      ps == [g.players EXCEPT ![w].chips = @ + g.pot]
  IN IF w = 0 THEN g
     ELSE [g EXCEPT !.players = ps,
                    !.winner = <<[id |-> ps[w].id, chips |-> ps[w].chips,
                                  potWon |-> g.pot, reason |-> winReason]>>]

\* dealAndBet that leaves game.highBet as the finished round set it
dealAndBet_keepsHighBet(g, count, nextPhase) ==
  [dealCommunityCards(g, count) EXCEPT !.phase = nextPhase,
                                       !.players = resetRound(@),
                                       !.activePlayerIndex = 0]

\* flop / turn / river: deal, then enter the following betting phase
dealAndBet(g, count, nextPhase) ==
  [dealCommunityCards(g, count) EXCEPT !.phase = nextPhase,
                                       !.players = resetRound(@),
                                       !.highBet = 0,
                                       !.activePlayerIndex = 0]

\* advancePhase whose all-in branch goes to showdown without dealing the
\* community cards that are missing
advancePhase_allInDealsNothing(g) ==
  LET currentIndex == indexOf(phases, g.phase)
      act == activeSeats(g.players)
      allAllIn == \A k \in 1 .. Len(act) : g.players[act[k]].chips = 0
      nextIndex == currentIndex + 1
      g1 == [g EXCEPT !.phase = phases[nextIndex + 1]]
      g2 == IF startsWithBetting(g1.phase)
            THEN [g1 EXCEPT !.players = resetRound(@),
                            !.highBet = 0,
                            !.activePlayerIndex = (indexOf(bettingPhases, g1.phase) \div 2) % 2]
            ELSE g1
  IN IF currentIndex = -1 THEN g
     ELSE IF allAllIn THEN awardPot([g EXCEPT !.phase = "showdown"])
     ELSE IF nextIndex >= Len(phases) THEN [g EXCEPT !.phase = "showdown"]
     ELSE IF g2.phase = "flop" THEN dealAndBet(g2, 3, "betting2")
     ELSE IF g2.phase = "turn" THEN dealAndBet(g2, 1, "betting3")
     ELSE IF g2.phase = "river" THEN dealAndBet(g2, 1, "betting4")
     ELSE IF g2.phase = "showdown" THEN awardPot(g2)
     ELSE g2

advancePhase(g) ==
  LET currentIndex == indexOf(phases, g.phase)
      act == activeSeats(g.players)
      allAllIn == \A k \in 1 .. Len(act) : g.players[act[k]].chips = 0
      nextIndex == currentIndex + 1
      g1 == [g EXCEPT !.phase = phases[nextIndex + 1]]
      g2 == IF startsWithBetting(g1.phase)
            THEN [g1 EXCEPT !.players = resetRound(@),
                            !.highBet = 0,
                            !.activePlayerIndex = (indexOf(bettingPhases, g1.phase) \div 2) % 2]
            ELSE g1
  IN IF currentIndex = -1 THEN g
     ELSE IF allAllIn
          THEN awardPot([dealCommunityCards(g, 5 - Len(g.community)) EXCEPT !.phase = "showdown"])
     ELSE IF nextIndex >= Len(phases) THEN [g EXCEPT !.phase = "showdown"]
     ELSE IF g2.phase = "flop" THEN dealAndBet(g2, 3, "betting2")
     ELSE IF g2.phase = "turn" THEN dealAndBet(g2, 1, "betting3")
     ELSE IF g2.phase = "river" THEN dealAndBet(g2, 1, "betting4")
     ELSE IF g2.phase = "showdown" THEN awardPot(g2)
     ELSE g2

\* broadcastGameState: the gameState payload each player's connection is
\* sent, by seat; one message is built and sent to every player
broadcastGameState(g) ==
  LET payload == [players |-> g.players, community |-> g.community, pot |-> g.pot,
                  highBet |-> g.highBet, phase |-> g.phase,
                  activePlayerIndex |-> g.activePlayerIndex,
                  winner |-> g.winner, foldWinner |-> g.foldWinner]
  IN [seat \in 1 .. Len(g.players) |-> payload]

(* --------------------------- message handlers -------------------------- *)
\* findIndex(p => p.id === playerId), 0-based, -1 when absent
findIndex(ps, playerId) ==
  IF \E i \in 1 .. Len(ps) : ps[i].id = playerId
  THEN (CHOOSE i \in 1 .. Len(ps) : ps[i].id = playerId) - 1
  ELSE -1

\* invalidAmount without the comparison with the player's chips
invalidAmount_ignoresChips(amount, chips) ==
  \/ amount = <<>>
  \/ amount[1] = 0
  \/ amount[1] <= 0

\* !amount || amount <= 0 || amount > player.chips
invalidAmount(amount, chips) ==
  \/ amount = <<>>
  \/ amount[1] = 0
  \/ amount[1] <= 0
  \/ amount[1] > chips

nextRound(g) ==
  [g EXCEPT !.phase = "idle",
            !.pot = 0,
            !.highBet = 0,
            !.players = [i \in 1 .. Len(@) |->
                           [@[i] EXCEPT !.bet = 0, !.folded = FALSE, !.hand = <<>>,
                                        !.roundBet = 0, !.actedThisRound = FALSE,
                                        !.chips = IF @ = 0 THEN DefaultStack ELSE @]],
            !.community = <<>>,
            !.winner = <<>>]

\* fold with game.pot cleared before it is added to the winner's chips
fold_potClearedFirst(g, seat) ==
  LET ps1 == [g.players EXCEPT ![seat].folded = TRUE]
      act == notFolded(ps1)
      w == act[1]
      potAfter == 0
      ps2 == [ps1 EXCEPT ![w].chips = @ + potAfter]
  IN IF Len(act) = 1
     THEN [g EXCEPT !.phase = "idle",
                    !.pot = potAfter,
                    !.foldWinner = <<[id |-> ps2[w].id, chips |-> ps2[w].chips,
                                      potWon |-> potAfter,
                                      foldedPlayerId |-> ps2[seat].id]>>,
                    !.players = [i \in 1 .. Len(ps2) |->
                                   [ps2[i] EXCEPT !.bet = 0, !.folded = FALSE, !.hand = <<>>]],
                    !.community = <<>>]
     ELSE advanceActivePlayer([g EXCEPT !.players = ps1])

fold(g, seat) ==
  LET ps1 == [g.players EXCEPT ![seat].folded = TRUE]
      act == notFolded(ps1)
      w == act[1]
      ps2 == [ps1 EXCEPT ![w].chips = @ + g.pot]
      potAfter == 0
  IN IF Len(act) = 1
     THEN [g EXCEPT !.phase = "idle",
                    !.pot = potAfter,
                    !.foldWinner = <<[id |-> ps2[w].id, chips |-> ps2[w].chips,
                                      potWon |-> potAfter,
                                      foldedPlayerId |-> ps2[seat].id]>>,
                    !.players = [i \in 1 .. Len(ps2) |->
                                   [ps2[i] EXCEPT !.bet = 0, !.folded = FALSE, !.hand = <<>>]],
                    !.community = <<>>]
     ELSE advanceActivePlayer([g EXCEPT !.players = ps1])

canCheck(g, seat) == g.highBet = 0 \/ g.players[seat].roundBet >= g.highBet

\* advanceActivePlayer, then advancePhase when allBetsMatched
finishAction(g) ==
  LET g1 == advanceActivePlayer(g)
  IN IF allBetsMatched(g1) THEN advancePhase(g1) ELSE g1

\* the game once an accepted check is recorded
checked(g, seat) == [g EXCEPT !.players[seat].actedThisRound = TRUE]

check(g, seat) ==
  IF ~canCheck(g, seat) THEN g
  ELSE finishAction(checked(g, seat))

\* Math.max() of no arguments is -Infinity; game.highBet is only ever
\* compared (===, >=, >), so a value below every round bet stands for it
NegInfinity == 0 - (DefaultStack * DefaultStack)

\* Math.max(...) over the round bets of the non-folded players
maxRoundBet(ps) ==
  LET act == activeSeats(ps)
  IN IF Len(act) = 0 THEN NegInfinity
     ELSE seqMax([k \in 1 .. Len(act) |-> ps[act[k]].roundBet])

\* wasARaise that also takes a bet equal to highBet (a call) for a raise
wasARaise_orEqual(ps, highBet) == maxRoundBet(ps) >= highBet

wasARaise(ps, highBet) == maxRoundBet(ps) > highBet

\* the game once an accepted bet has moved the chips and set highBet
placed(g, seat, amount) ==
  LET betAmount == amount[1]
      ps1 == [g.players EXCEPT ![seat].chips = @ - betAmount,
                               ![seat].roundBet = @ + betAmount,
                               ![seat].actedThisRound = TRUE]
      ps2 == IF wasARaise(ps1, g.highBet)
             THEN [i \in 1 .. Len(ps1) |->
                     IF i # seat /\ ~ps1[i].folded
                     THEN [ps1[i] EXCEPT !.actedThisRound = FALSE] ELSE ps1[i]]
             ELSE ps1
  IN [g EXCEPT !.pot = @ + betAmount,
               !.highBet = maxRoundBet(ps1),
               !.players = ps2]

bet(g, seat, amount) ==
  IF invalidAmount(amount, g.players[seat].chips) THEN g
  ELSE finishAction(placed(g, seat, amount))

\* the turn check of the action handler
notYourTurn(g, playerIndex) ==
  startsWithBetting(g.phase) /\ playerIndex # g.activePlayerIndex

\* the `action` message handler: the game after the message is processed
handleAction(g, gameId, playerId, action, amount) ==
  LET playerIndex == findIndex(g.players, playerId)
      seat == playerIndex + 1
  IN IF gameId # GameId THEN g
     ELSE IF action = "nextRound" THEN nextRound(g)
     ELSE IF playerIndex = -1 THEN g
     ELSE IF notYourTurn(g, playerIndex) THEN g
     ELSE IF action = "fold" THEN fold(g, seat)
     ELSE IF action = "check" THEN check(g, seat)
     ELSE IF action = "bet" THEN bet(g, seat, amount)
     ELSE g

\* what the `action` handler sends while it processes the message: an error
\* to the connection the message came from (ws.send), or the gameState that
\* broadcastGameState sends to every player of the game; a return without
\* either sends nothing
errorReply(text) == [to |-> "origin", type |-> "error", message |-> text]

gameStateTo(ps) == [k \in 1 .. Len(ps) |-> [to |-> ps[k].id, type |-> "gameState", message |-> ""]]

actionReplies(g, gameId, playerId, action, amount) ==
  LET playerIndex == findIndex(g.players, playerId)
      seat == playerIndex + 1
  IN IF gameId # GameId THEN <<errorReply("Game not found")>>
     ELSE IF action = "nextRound" THEN gameStateTo(g.players)
     ELSE IF playerIndex = -1 THEN <<>>
     ELSE IF notYourTurn(g, playerIndex) THEN <<errorReply("Not your turn")>>
     ELSE IF action = "check" /\ ~canCheck(g, seat) THEN <<errorReply("Must match bet")>>
     ELSE IF action = "bet" /\ invalidAmount(amount, g.players[seat].chips) THEN <<>>
     ELSE gameStateTo(g.players)

startGame(g, gameId, playerId, deck) ==
  LET isHost == g.players[1].id = playerId
  IN IF gameId # GameId THEN g
     ELSE IF ~isHost THEN g
     ELSE dealCards([g EXCEPT !.phase = "betting1",
                              !.activePlayerIndex = 0,
                              !.pot = 0,
                              !.highBet = 0,
                              !.players = [i \in 1 .. Len(@) |->
                                 [@[i] EXCEPT !.bet = 0, !.roundBet = 0, !.folded = FALSE,
                                              !.hand = <<>>, !.actedThisRound = FALSE]],
                              !.community = <<>>,
                              !.deck = deck])

joinGame(g, gameId) ==
  IF gameId # GameId THEN g
  ELSE IF Len(g.players) >= 2 THEN g
  ELSE [g EXCEPT !.players = Append(@, newPlayer(GuestId))]

\* the game as createGame stores it
createGame ==
  [players |-> <<newPlayer(HostId)>>, community |-> <<>>, pot |-> 0, highBet |-> 0,
   phase |-> "idle", activePlayerIndex |-> 0, deck |-> <<>>,
   winner |-> <<>>, foldWinner |-> <<>>]

(* ------------------- awaits of the Yellow session ---------------------- *)
\* the wallet address a createGame payload may carry, and the id
\* createPokerSession returns
HostWallet == "0xHost"
SessionId == "S"

\* game.players.filter(p => p.walletAddress)
playersWithWallets(g) == SelectSeq(g.players, LAMBDA p : p.walletAddress # <<>>)

\* startGame of an accepted message waits for startPokerSession
startAwaits(g, gameId, playerId) ==
  /\ gameId = GameId
  /\ g.players[1].id = playerId
  /\ Len(playersWithWallets(g)) >= 1

\* advancePhase(g) runs a winner resolution that finds a winner, and so
\* calls handleShowdownSettlement
resolves(g) ==
  LET currentIndex == indexOf(phases, g.phase)
      act == activeSeats(g.players)
      allAllIn == \A k \in 1 .. Len(act) : g.players[act[k]].chips = 0
  IN /\ currentIndex # -1
     /\ \/ allAllIn
        \/ currentIndex + 1 < Len(phases) /\ phases[currentIndex + 2] = "showdown"
     /\ Len(notFolded(g.players)) >= 1

\* the game an accepted check or bet hands to allBetsMatched; <<>> for any
\* other message
roundEnd(g, gameId, playerId, action, amount) ==
  LET playerIndex == findIndex(g.players, playerId)
      seat == playerIndex + 1
  IN IF gameId # GameId \/ playerIndex = -1 THEN <<>>
     ELSE IF notYourTurn(g, playerIndex) THEN <<>>
     ELSE IF action = "check" /\ canCheck(g, seat)
          THEN <<advanceActivePlayer(checked(g, seat))>>
     ELSE IF action = "bet" /\ ~invalidAmount(amount, g.players[seat].chips)
          THEN <<advanceActivePlayer(placed(g, seat, amount))>>
     ELSE <<>>

\* handling the message ends in handleShowdownSettlement waiting for
\* settlePokerSession: a session id is set, a winner was found, and the
\* service has an open app session to close
settleAwaits(g, sessionId, appSession, gameId, playerId, action, amount) ==
  LET e == roundEnd(g, gameId, playerId, action, amount)
  IN /\ e # <<>>
     /\ allBetsMatched(e[1])
     /\ resolves(e[1])
     /\ sessionId # <<>>
     /\ appSession # <<>>

\* the finalAllocations handleShowdownSettlement hands to settlePokerSession:
\* one entry per player with a wallet address.  An amount is a decimal
\* string; String(winner.potWon / 1000000) is potWon millionths and '0' is
\* none, so an amount is kept as its number of millionths.
finalAllocations(g) ==
  LET withWallet == playersWithWallets(g)
  IN [k \in 1 .. Len(withWallet) |->
        [walletAddress |-> withWallet[k].walletAddress[1],
         millionths |-> IF withWallet[k].id = g.winner[1].id
                        THEN g.winner[1].potWon ELSE 0]]

noSession ==
  /\ yellowSessionId = <<>>
  /\ appSessionId = <<>>
  /\ suspended = [startGame |-> 0, settlement |-> 0]
  /\ settlementLog = ""

(* ------------------- the local game (useGame hook) -------------------- *)
\* DECK: the 52 cards, faces outermost, a card being its position 1 .. 52
DECK == [i \in 1 .. 52 |-> i]

\* Math.floor(Math.random() * (i + 1)) of the k-th run of shuffleDeck, for
\* the 0-based loop index i: some index in 0 .. i
randomIndex(k, i) == (k * (i + 3) + (i \div 2)) % (i + 1)

\* [deck[i], deck[j]] = [deck[j], deck[i]], with a second cell overwritten
\* instead of exchanged
swap_overwrite(deck, i, j) == [deck EXCEPT ![i + 1] = deck[j + 1]]

\* [deck[i], deck[j]] = [deck[j], deck[i]], i and j 0-based
swap(deck, i, j) == [deck EXCEPT ![i + 1] = deck[j + 1], ![j + 1] = deck[i + 1]]

\* the loop of shuffleDeck from index i down to 1
RECURSIVE shuffleLoop(_, _, _)
shuffleLoop(deck, i, k) ==
  IF i > 0 THEN shuffleLoop(swap(deck, i, randomIndex(k, i)), i - 1, k)
  ELSE deck

shuffleDeck(k) == shuffleLoop(DECK, Len(DECK) - 1, k)

minBet == 20

\* amounts the table's bet control passes to bet()
LocalAmounts == {minBet, DefaultStack + minBet}

\* the state useState starts with, and reset() restores
initialState ==
  [players |-> <<>>, community |-> <<>>, pot |-> 0, highBet |-> 0, turn |-> "",
   phase |-> "idle", deck |-> <<>>, activePlayerIndex |-> 0, dealerIndex |-> 0,
   actionInProgress |-> FALSE]

localPlayer(id, hand, active, isRobot) ==
  [id |-> id, chips |-> DefaultStack, hand |-> hand, bet |-> 0, folded |-> FALSE,
   isActive |-> active, robot |-> isRobot]

createLocalGame(deck) ==
  [players |-> <<localPlayer("p1", <<deck[1], deck[2]>>, TRUE, FALSE),
                 localPlayer("p2", <<deck[3], deck[4]>>, FALSE, TRUE)>>,
   community |-> <<>>, pot |-> 0, highBet |-> minBet, turn |-> "p1",
   phase |-> "betting1", deck |-> SubSeq(deck, 5, Len(deck)),
   activePlayerIndex |-> 0, dealerIndex |-> 0, actionInProgress |-> FALSE]

\* the guard the three player actions share
localBusy(s) == s.actionInProgress \/ s.phase = "idle" \/ s.phase = "showdown"

localNextIndex(s) == (s.activePlayerIndex + 1) % Len(s.players)

localFold(s) ==
  IF localBusy(s) THEN s
  ELSE [s EXCEPT !.players = [i \in 1 .. Len(s.players) |->
                                IF s.players[i].id = s.turn
                                THEN [s.players[i] EXCEPT !.folded = TRUE, !.isActive = FALSE]
                                ELSE [s.players[i] EXCEPT !.isActive = TRUE]],
                 !.turn = s.players[localNextIndex(s) + 1].id,
                 !.activePlayerIndex = localNextIndex(s),
                 !.actionInProgress = TRUE]

localCheck(s) ==
  IF localBusy(s) THEN s
  ELSE [s EXCEPT !.turn = s.players[localNextIndex(s) + 1].id,
                 !.activePlayerIndex = localNextIndex(s),
                 !.actionInProgress = TRUE]

localMax(a, b) == IF a >= b THEN a ELSE b

localBet(s, amount) ==
  LET newPlayers == [i \in 1 .. Len(s.players) |->
                       IF s.players[i].id = s.turn
                       THEN [s.players[i] EXCEPT !.bet = @ + amount,
                                                 !.chips = localMax(0, @ - amount),
                                                 !.isActive = FALSE]
                       ELSE s.players[i]]
  IN IF localBusy(s) THEN s
     ELSE [s EXCEPT !.pot = @ + amount,
                    !.highBet = localMax(@, newPlayers[s.activePlayerIndex + 1].bet),
                    !.players = newPlayers,
                    !.turn = s.players[localNextIndex(s) + 1].id,
                    !.activePlayerIndex = localNextIndex(s),
                    !.actionInProgress = TRUE]

phaseMap(phase) ==
  CASE phase = "idle" -> "initialDeal" [] phase = "initialDeal" -> "betting1"
    [] phase = "betting1" -> "flop" [] phase = "flop" -> "betting2"
    [] phase = "betting2" -> "turn" [] phase = "turn" -> "betting3"
    [] phase = "betting3" -> "river" [] phase = "river" -> "betting4"
    [] phase = "betting4" -> "showdown" [] phase = "showdown" -> "idle"

localAdvancePhase(s) ==
  LET nextPhase == phaseMap(s.phase)
      newCommunity ==
        IF nextPhase = "flop" /\ Len(s.community) = 0
        THEN <<s.deck[1], s.deck[2], s.deck[3]>>
        ELSE IF nextPhase = "turn" /\ Len(s.community) = 3
        THEN Append(s.community, s.deck[4])
        ELSE IF nextPhase = "river" /\ Len(s.community) = 4
        THEN Append(s.community, s.deck[5])
        ELSE s.community
  IN [s EXCEPT !.phase = nextPhase,
               !.community = newCommunity,
               !.players = [i \in 1 .. Len(s.players) |->
                              [s.players[i] EXCEPT
                                 !.bet = 0,
                                 !.isActive = (s.players[i].id = s.players[s.dealerIndex + 1].id)]],
               !.highBet = 0,
               !.activePlayerIndex = s.dealerIndex,
               !.turn = s.players[s.dealerIndex + 1].id]

localNextRound(s) == IF s.phase # "showdown" THEN s ELSE localAdvancePhase(s)

advanceRound(s) == IF s.phase = "idle" THEN s ELSE localAdvancePhase(s)

\* the CPU effect, run after a render with state s: the timer it schedules
\* (holding the state it closes over), <<>> when it returns early
cpuEffect(s) ==
  IF s.phase = "idle" \/ s.phase = "showdown" \/ s.actionInProgress THEN <<>>
  ELSE IF s.activePlayerIndex + 1 > Len(s.players) THEN <<>>
  ELSE IF ~s.players[s.activePlayerIndex + 1].robot THEN <<>>
  ELSE <<s>>

(* ---------------------------- specification ---------------------------- *)
\* a handler's result is taken while fewer than MaxSteps messages have
\* changed the game; a message that changes nothing is always taken
withinBounds(g) == g # game => steps < MaxSteps

countStep(g) == IF g # game THEN steps + 1 ELSE steps

\* the useGame hook before any of its actions: no timer is scheduled, as
\* the effect returns at once for an empty table
localIdle == local = initialState /\ cpuTimer = cpuEffect(initialState)

\* no call of evaluateHand is under observation
noEval == evalInput = <<>> /\ evalResult = <<>> /\ scriptResult = <<>>

\* a game none of whose players gave a wallet address: no handler of it
\* ever waits for the Yellow session
Init == game = createGame /\ steps = 0 /\ localIdle /\ noSession /\ noEval

JoinGame ==
  \E gameId \in GameIds :
    LET g == joinGame(game, gameId)
    IN /\ withinBounds(g)
       /\ game' = g
       /\ steps' = countStep(g)
       /\ UNCHANGED <<localVars, sessionVars, evalVars>>

StartGame ==
  \E m \in StartPayloads, deck \in createDeck :
    LET g == startGame(game, m.gameId, m.playerId, deck)
    IN /\ withinBounds(g)
       /\ game' = g
       /\ steps' = countStep(g)
       /\ UNCHANGED <<localVars, sessionVars, evalVars>>

Action ==
  \E m \in ActionPayloads :
    LET g == handleAction(game, m.gameId, m.playerId, m.action, m.amount)
    IN /\ withinBounds(g)
       /\ game' = g
       /\ steps' = countStep(g)
       /\ UNCHANGED <<localVars, sessionVars, evalVars>>

Next == JoinGame \/ StartGame \/ Action

Spec == Init /\ [][Next]_vars

(* ----------------------- the local game's actions ---------------------- *)
\* setState with a new state object re-renders: the effect's cleanup clears
\* the pending timer and the effect runs again for the new state; an updater
\* that returns the state it was given changes nothing
rerender(s) == IF s = local THEN cpuTimer ELSE cpuEffect(s)

Reset ==
  /\ local' = initialState
  /\ cpuTimer' = cpuEffect(initialState)
  /\ UNCHANGED <<serverVars, sessionVars, evalVars>>

CreateLocalGame ==
  \E k \in 1 .. NumShuffles :
    /\ local' = createLocalGame(shuffleDeck(k))
    /\ cpuTimer' = cpuEffect(local')
    /\ UNCHANGED <<serverVars, sessionVars, evalVars>>

LocalFold ==
  /\ local' = localFold(local)
  /\ cpuTimer' = rerender(local')
  /\ UNCHANGED <<serverVars, sessionVars, evalVars>>

LocalCheck ==
  /\ local' = localCheck(local)
  /\ cpuTimer' = rerender(local')
  /\ UNCHANGED <<serverVars, sessionVars, evalVars>>

LocalBet ==
  \E amount \in LocalAmounts :
    /\ local' = localBet(local, amount)
    /\ cpuTimer' = rerender(local')
    /\ UNCHANGED <<serverVars, sessionVars, evalVars>>

LocalNextRound ==
  /\ local' = localNextRound(local)
  /\ cpuTimer' = rerender(local')
  /\ UNCHANGED <<serverVars, sessionVars, evalVars>>

AdvanceRound ==
  /\ local' = advanceRound(local)
  /\ cpuTimer' = rerender(local')
  /\ UNCHANGED <<serverVars, sessionVars, evalVars>>

LocalInit == localIdle /\ game = createGame /\ steps = 0 /\ noSession /\ noEval

LocalNext ==
  \/ Reset \/ CreateLocalGame \/ LocalFold \/ LocalCheck \/ LocalBet
  \/ LocalNextRound \/ AdvanceRound

LocalSpec == LocalInit /\ [][LocalNext]_vars

(* ------------------------- notions used by the claims ------------------ *)
\* check / bet / fold messages of the game's players
PlayerActions ==
  {m \in ActionPayloads : /\ m.gameId = GameId
                          /\ m.action \in {"fold", "check", "bet"}
                          /\ findIndex(game.players, m.playerId) # -1}

\* the game after message m is handled in the current state
after(m) == handleAction(game, m.gameId, m.playerId, m.action, m.amount)

seatOf(m) == findIndex(game.players, m.playerId) + 1

\* m passes the turn check and the validation of its action
accepted(m) ==
  /\ ~notYourTurn(game, seatOf(m) - 1)
  /\ m.action = "check" => canCheck(game, seatOf(m))
  /\ m.action = "bet" => ~invalidAmount(m.amount, game.players[seatOf(m)].chips)

\* what message m moves from its sender's chips into the pot
staked(m, seat) ==
  IF m.action = "bet" /\ seat = seatOf(m) /\ accepted(m) THEN m.amount[1] ELSE 0

RECURSIVE seqSum(_)
seqSum(s) == IF s = <<>> THEN 0 ELSE s[1] + seqSum(Tail(s))

totalChips(g) == seqSum([i \in 1 .. Len(g.players) |-> g.players[i].chips])
totalBet(g) == seqSum([i \in 1 .. Len(g.players) |-> g.players[i].bet])

chipsPlusPot(g) == totalChips(g) + g.pot

inBetting(g) == startsWithBetting(g.phase)

twoSeated == Len(game.players) = 2

(* ------------- the server's game with a Yellow session ---------------- *)
\* the game of a host who gave a wallet address, its Yellow session
\* initialized: startGame waits for startPokerSession before it sets
\* game.yellowSessionId, and a showdown waits for settlePokerSession before
\* it broadcasts; other messages are handled while a handler waits
SessionInit ==
  /\ game = [createGame EXCEPT !.players[1].walletAddress = <<HostWallet>>]
  /\ steps = 0
  /\ localIdle /\ noSession /\ noEval

SessionJoinGame ==
  \E gameId \in GameIds :
    LET g == joinGame(game, gameId)
    IN /\ g # game => steps < MaxSessionSteps
       /\ game' = g
       /\ steps' = countStep(g)
       /\ UNCHANGED <<localVars, sessionVars, evalVars>>

SessionStartGame ==
  \E m \in StartPayloads, deck \in createDeck :
    LET g == startGame(game, m.gameId, m.playerId, deck)
        waits == startAwaits(game, m.gameId, m.playerId)
    IN /\ (g # game \/ waits) => steps < MaxSessionSteps
       /\ game' = g
       /\ steps' = IF g # game \/ waits THEN steps + 1 ELSE steps
       /\ suspended' = IF waits THEN [suspended EXCEPT !.startGame = @ + 1]
                       ELSE suspended
       /\ UNCHANGED <<yellowSessionId, appSessionId, settlementLog, localVars, evalVars>>

\* startPokerSession returns the session id, or throws and the handler
\* goes on without one
StartSessionReturns ==
  \E ok \in BOOLEAN :
    /\ suspended.startGame > 0
    /\ suspended' = [suspended EXCEPT !.startGame = @ - 1]
    /\ appSessionId' = IF ok THEN <<SessionId>> ELSE appSessionId
    /\ yellowSessionId' = IF ok THEN <<SessionId>> ELSE yellowSessionId
    /\ UNCHANGED <<settlementLog, serverVars, localVars, evalVars>>

SessionAction ==
  \E m \in ActionPayloads :
    LET g == handleAction(game, m.gameId, m.playerId, m.action, m.amount)
        waits == settleAwaits(game, yellowSessionId, appSessionId,
                              m.gameId, m.playerId, m.action, m.amount)
    IN /\ (g # game \/ waits) => steps < MaxSessionSteps
       /\ game' = g
       /\ steps' = IF g # game \/ waits THEN steps + 1 ELSE steps
       /\ suspended' = IF waits THEN [suspended EXCEPT !.settlement = @ + 1]
                       ELSE suspended
       /\ UNCHANGED <<yellowSessionId, appSessionId, settlementLog, localVars, evalVars>>

\* SettleReturns with a failure that takes the pot back from the winner and
\* forgets the recorded winner
SettleReturns_rollsBack ==
  \E ok \in BOOLEAN :
    /\ suspended.settlement > 0
    /\ suspended' = [suspended EXCEPT !.settlement = @ - 1]
    /\ appSessionId' = IF ok THEN <<>> ELSE appSessionId
    /\ settlementLog' = IF ok THEN "Yellow Network settlement complete"
                        ELSE "Yellow settlement failed"
    /\ game' = IF ok \/ game.winner = <<>> THEN game
               ELSE [game EXCEPT
                       !.players[findIndex(game.players, game.winner[1].id) + 1].chips =
                          @ - game.winner[1].potWon,
                       !.winner = <<>>]
    /\ UNCHANGED <<yellowSessionId, steps, localVars, evalVars>>

\* settlePokerSession returns having closed the app session, or throws
\* (an error of the network, or the timeout of closePokerSession); the
\* catch of handleShowdownSettlement logs the failure and the handler goes
\* on to broadcast
SettleReturns ==
  \E ok \in BOOLEAN :
    /\ suspended.settlement > 0
    /\ suspended' = [suspended EXCEPT !.settlement = @ - 1]
    /\ appSessionId' = IF ok THEN <<>> ELSE appSessionId
    /\ settlementLog' = IF ok THEN "Yellow Network settlement complete"
                        ELSE "Yellow settlement failed"
    /\ UNCHANGED <<yellowSessionId, serverVars, localVars, evalVars>>

SessionNext ==
  \/ SessionJoinGame \/ SessionStartGame \/ StartSessionReturns
  \/ SessionAction \/ SettleReturns

SessionSpec == SessionInit /\ [][SessionNext]_vars

(* ------------- hands of two players with a Yellow session -------------- *)
\* number of hands the host starts
MaxHands == 1

GuestWallet == "0xGuest"

\* what the two clients send while a hand is played: a check, a fold or a
\* bet of a player of the game
HandPayloads ==
  {m \in ActionPayloads : /\ m.gameId = GameId
                          /\ m.playerId \in {HostId, GuestId}
                          /\ m.action \in {"fold", "check", "bet"}}

\* the guest joins, with or without a wallet address in the payload
HandJoinGame ==
  \E walletAddress \in {<<>>, <<GuestWallet>>} :
    LET g == joinGame(game, GameId)
    IN /\ g # game
       /\ game' = [g EXCEPT !.players[Len(g.players)].walletAddress = walletAddress]
       /\ UNCHANGED <<steps, localVars, sessionVars, evalVars>>

\* the host starts a hand from the lobby once the guest is seated
HandStartGame ==
  \E deck \in createDeck :
    /\ game.phase = "idle"
    /\ Len(game.players) = 2
    /\ suspended.startGame = 0
    /\ steps < MaxHands
    /\ game' = startGame(game, GameId, HostId, deck)
    /\ steps' = steps + 1
    /\ suspended' = IF startAwaits(game, GameId, HostId)
                    THEN [suspended EXCEPT !.startGame = @ + 1] ELSE suspended
    /\ UNCHANGED <<yellowSessionId, appSessionId, settlementLog, localVars, evalVars>>

\* a player acts on the gameState broadcast to him: during a betting phase,
\* after the startGame handler has broadcast the deal
HandAction ==
  \E m \in HandPayloads :
    /\ inBetting(game)
    /\ suspended.startGame = 0
    /\ game' = handleAction(game, m.gameId, m.playerId, m.action, m.amount)
    /\ suspended' = IF settleAwaits(game, yellowSessionId, appSessionId,
                                    m.gameId, m.playerId, m.action, m.amount)
                    THEN [suspended EXCEPT !.settlement = @ + 1] ELSE suspended
    /\ UNCHANGED <<steps, yellowSessionId, appSessionId, settlementLog, localVars, evalVars>>

\* a player asks for the next round once the showdown is shown
HandNextRound ==
  /\ game.phase = "showdown"
  /\ game' = handleAction(game, GameId, HostId, "nextRound", <<>>)
  /\ UNCHANGED <<steps, sessionVars, localVars, evalVars>>

HandNext ==
  \/ HandJoinGame \/ HandStartGame \/ StartSessionReturns
  \/ HandAction \/ HandNextRound \/ SettleReturns

HandSpec == SessionInit /\ [][HandNext]_vars

(* ------- hands with bets that are not a whole number of chips --------- *)
\* message.payload.amount is whatever number the JSON of the message holds,
\* and chips, roundBet and pot are JavaScript numbers, IEEE 754 doubles.  A
\* double x >= 1 has no neighbour nearer than 2^-53, so for an amount a with
\* 0 < a <= 2^-60 both x - a and x + a round to x.  Such an amount passes
\* `!amount || amount <= 0 || amount > player.chips` for a player with a
\* chip, and `-=` / `+=` leave chips, roundBet and pot as they are when each
\* of them is 1 or more.
HalfUnit == BetUnit \div 2

dustAbsorbed(g, seat) ==
  /\ g.players[seat].chips >= 1
  /\ g.players[seat].roundBet >= 1
  /\ g.pot >= 1

\* the game once such a bet is recorded: the three sums are unchanged,
\* actedThisRound is set, highBet and the raise are computed as for any bet
dustPlaced(g, seat) ==
  LET ps1 == [g.players EXCEPT ![seat].actedThisRound = TRUE]
      ps2 == IF wasARaise(ps1, g.highBet)
             THEN [i \in 1 .. Len(ps1) |->
                     IF i # seat /\ ~ps1[i].folded
                     THEN [ps1[i] EXCEPT !.actedThisRound = FALSE] ELSE ps1[i]]
             ELSE ps1
  IN [g EXCEPT !.highBet = maxRoundBet(ps1), !.players = ps2]

betDust(g, seat) == finishAction(dustPlaced(g, seat))

\* what the two clients send: fold, check, and bets of half units
LivePayloads ==
  {[gameId |-> GameId, playerId |-> p, action |-> a, amount |-> <<>>] :
     p \in {HostId, GuestId}, a \in {"fold", "check"}}
  \cup {[gameId |-> GameId, playerId |-> p, action |-> "bet", amount |-> <<k * HalfUnit>>] :
          p \in {HostId, GuestId}, k \in 1 .. MaxBetUnits}

LiveAction ==
  \E m \in LivePayloads :
    /\ inBetting(game)
    /\ suspended.startGame = 0
    /\ game' = handleAction(game, m.gameId, m.playerId, m.action, m.amount)
    /\ suspended' = IF settleAwaits(game, yellowSessionId, appSessionId,
                                    m.gameId, m.playerId, m.action, m.amount)
                    THEN [suspended EXCEPT !.settlement = @ + 1] ELSE suspended
    /\ UNCHANGED <<steps, yellowSessionId, appSessionId, settlementLog, localVars, evalVars>>

\* the player to act bets an amount of at most 2^-60 that is absorbed
DustBet ==
  \E seat \in 1 .. Len(game.players) :
    LET e == advanceActivePlayer(dustPlaced(game, seat))
    IN /\ inBetting(game)
       /\ suspended.startGame = 0
       /\ ~notYourTurn(game, seat - 1)
       /\ dustAbsorbed(game, seat)
       /\ game' = betDust(game, seat)
       /\ suspended' = IF /\ allBetsMatched(e) /\ resolves(e)
                          /\ yellowSessionId # <<>> /\ appSessionId # <<>>
                       THEN [suspended EXCEPT !.settlement = @ + 1] ELSE suspended
       /\ UNCHANGED <<steps, yellowSessionId, appSessionId, settlementLog, localVars, evalVars>>

LiveNext ==
  \/ HandJoinGame \/ HandStartGame \/ StartSessionReturns
  \/ LiveAction \/ DustBet \/ HandNextRound \/ SettleReturns

\* the awaits of startPokerSession and settlePokerSession return: both calls
\* have a timeout; what the clients send is up to them
HandLiveSpec ==
  /\ SessionInit /\ [][LiveNext]_vars
  /\ WF_vars(StartSessionReturns)
  /\ WF_vars(SettleReturns)

(* --------- hand evaluator of the simulation script (poker-game.ts) ----- *)
RANKS == <<"2", "3", "4", "5", "6", "7", "8", "9", "10", "J", "Q", "K", "A">>

\* Array.prototype.reverse
reverse(s) == [i \in 1 .. Len(s) |-> s[Len(s) + 1 - i]]

\* sort((a, b) => a - b)
sortAsc(s) == reverse(sortDesc(s))

\* evaluateHand of scripts/poker-game.ts: a card's rank is its index in
\* RANKS (0 for "2" up to 12 for "A"); there is no case for the wheel
scriptEvaluateHand(hand, community) ==
  LET allCards == hand \o community
      n == Len(allCards)
      rks == [i \in 1 .. n |-> indexOf(RANKS, cardRank(allCards[i]))]
      sts == [i \in 1 .. n |-> cardSuit(allCards[i])]
      rankCount(r) == Cardinality({i \in 1 .. n : rks[i] = r})
      suitCount(t) == Cardinality({i \in 1 .. n : sts[i] = t})
      counts == sortDesc(SelectSeq([r \in 1 .. Len(RANKS) |-> rankCount(r - 1)],
                                   LAMBDA c : c > 0))
      hasFlush == \E i \in 1 .. n : suitCount(sts[i]) >= 5
      uniqueRanks == sortAsc(dedup(rks))
      hasStraight == \E i \in 1 .. (Len(uniqueRanks) - 4) :
                       uniqueRanks[i + 4] - uniqueRanks[i] = 4
      c0 == IF Len(counts) >= 1 THEN counts[1] ELSE 0
      c1 == IF Len(counts) >= 2 THEN counts[2] ELSE 0
  IN  IF hasFlush /\ hasStraight THEN [score |-> 8, name |-> "Straight Flush"]
      ELSE IF c0 = 4 THEN [score |-> 7, name |-> "Four of a Kind"]
      ELSE IF c0 = 3 /\ c1 = 2 THEN [score |-> 6, name |-> "Full House"]
      ELSE IF hasFlush THEN [score |-> 5, name |-> "Flush"]
      ELSE IF hasStraight THEN [score |-> 4, name |-> "Straight"]
      ELSE IF c0 = 3 THEN [score |-> 3, name |-> "Three of a Kind"]
      ELSE IF c0 = 2 /\ c1 = 2 THEN [score |-> 2, name |-> "Two Pair"]
      ELSE IF c0 = 2 THEN [score |-> 1, name |-> "Pair"]
      ELSE [score |-> 0, name |-> "High Card"]

(* ------------------------ calls of evaluateHand ------------------------ *)
\* A, K, Q, J, 10 of the suit numbered t (0-based, in the order of `suits`)
royalOf(t) == [r \in 1 .. 5 |-> Len(ranks) * t + r]

\* cards outside royalOf(t), spread over the ranks and the other suits
extrasOf(t) ==
  {((Len(ranks) * t + 4 + 9 * k) % DeckSize) + 1 : k \in 1 .. NumEvalExtras}

\* arguments of evaluateHand that contain a royal flush: the five cards on
\* the board and two other cards in the hand, or two of the five in the hand
\* and the other cards on the board
royalInputsOf(t) ==
  UNION {{[hand |-> <<x, y>>, community |-> royalOf(t)],
          [hand |-> SubSeq(royalOf(t), 1, 2),
           community |-> SubSeq(royalOf(t), 3, 5) \o <<x, y>>]} :
         x \in extrasOf(t), y \in extrasOf(t)}

RoyalInputs == UNION {royalInputsOf(t) : t \in 0 .. (Len(suits) - 1)}

\* the card of value v (2 .. 14, the ace 14) in the suit numbered t
cardOf(v, t) == Len(ranks) * t + (Len(ranks) + 2 - v)

\* three cards of value a and two of value b
fullHouseOf(a, b) ==
  <<cardOf(a, 0), cardOf(a, 1), cardOf(a, 2), cardOf(b, 0), cardOf(b, 1)>>

\* five cards of consecutive values, the highest h, in mixed suits; the ace
\* is the card below the 2, so straightOf(5) is the wheel
straightOf(h) ==
  [d \in 1 .. 5 |-> cardOf(IF h - d + 1 = 1 THEN 14 ELSE h - d + 1, d % Len(suits))]

\* values of the triple and of the pair, and of the top card of a straight
EvalValues == {2, 5, 14}
EvalTops == {5, 6, 10, 14}

\* arguments of evaluateHand made of five given cards and up to two cards
\* of a pool: hand and flop alone, with a turn card, with turn and river,
\* or the five cards as the board and the two others as the hand
inputsOf(five, pool) ==
  {[hand |-> SubSeq(five, 1, 2), community |-> SubSeq(five, 3, 5)]}
  \cup {[hand |-> SubSeq(five, 1, 2), community |-> SubSeq(five, 3, 5) \o <<x>>] :
          x \in pool}
  \cup {[hand |-> SubSeq(five, 1, 2), community |-> SubSeq(five, 3, 5) \o <<x, y>>] :
          x \in pool, y \in pool}
  \cup {[hand |-> <<x, y>>, community |-> five] : x \in pool, y \in pool}

\* a full house and two more cards, among them a third card of the pair's
\* value and the fourth card of the triple's value
FullHouseInputs ==
  UNION {inputsOf(fullHouseOf(v[1], v[2]),
                  extrasOf(0) \cup {cardOf(v[1], 3), cardOf(v[2], 2), cardOf(v[2], 3)}) :
         v \in {w \in EvalValues \X EvalValues : w[1] # w[2]}}

\* a straight and two more cards, among them a second card of its top
\* value and cards next to its ends (the ace below the 2)
StraightInputs ==
  UNION {inputsOf(straightOf(h),
                  extrasOf(0) \cup {cardOf(h, 2), cardOf(IF h = 14 THEN 9 ELSE h + 1, 1),
                                    cardOf(IF h = 5 THEN 13 ELSE IF h = 6 THEN 14 ELSE h - 5, 2)}) :
         h \in EvalTops}

\* the cards of an input are different cards
EvalInputs ==
  {i \in RoyalInputs \cup FullHouseInputs \cup StraightInputs :
     Cardinality({(i.hand \o i.community)[n] : n \in 1 .. Len(i.hand \o i.community)})
       = Len(i.hand \o i.community)}

EvalInit ==
  /\ evalInput \in {<<i>> : i \in EvalInputs}
  /\ evalResult = <<>>
  /\ scriptResult = <<>>
  /\ game = createGame /\ steps = 0 /\ localIdle /\ noSession

Evaluate ==
  /\ evalResult = <<>>
  /\ evalResult' = <<evaluateHand(evalInput[1].hand, evalInput[1].community)>>
  /\ UNCHANGED <<evalInput, scriptResult, serverVars, localVars, sessionVars>>

\* the simulation script evaluates the same cards with its own evaluateHand
ScriptEvaluate ==
  /\ scriptResult = <<>>
  /\ scriptResult' = <<scriptEvaluateHand(evalInput[1].hand, evalInput[1].community)>>
  /\ UNCHANGED <<evalInput, evalResult, serverVars, localVars, sessionVars>>

EvalNext == Evaluate \/ ScriptEvaluate

EvalSpec == EvalInit /\ [][EvalNext]_vars

(* -------------------------------- C1 ----------------------------------- *)
\* C1: chip conservation. During a hand of a two-player game, every check,
\* bet or fold leaves sum(chips) + pot at the value it had before the message.
C1_ChipsPlusPotConserved ==
  [][\A m \in PlayerActions :
       (twoSeated /\ inBetting(game) /\ game' = after(m))
         => chipsPlusPot(game') = chipsPlusPot(game)]_vars

(* -------------------------------- C2 ----------------------------------- *)
\* C2: in every state of a hand of a two-player game the pot equals the sum
\* of the players' committed bets (Player.bet).
C2_PotIsSumOfBets ==
  (twoSeated /\ inBetting(game)) => game.pot = totalBet(game)

(* -------------------------------- C3 ----------------------------------- *)
\* the highest round bet among the non-folded players once m's stake is added
\* (below every bet when nobody is left unfolded)
highBetWith(m) ==
  LET live == {j \in 1 .. Len(game.players) : ~game.players[j].folded}
      rb(j) == game.players[j].roundBet + staked(m, j)
  IN IF live = {} THEN NegInfinity
     ELSE rb(CHOOSE j \in live : \A k \in live : rb(j) >= rb(k))

isRaise(m) == m.action = "bet" /\ accepted(m) /\ highBetWith(m) > game.highBet

others(m) == {j \in 1 .. Len(game.players) : j # seatOf(m)}

\* g is the game after m: a betting phase was entered (advancePhase reset the round)
entersBettingPhase(g) == g.phase # game.phase /\ inBetting(g)

raiseReopens(m, g) ==
  isRaise(m) => \A j \in others(m) : ~g.players[j].folded => ~g.players[j].actedThisRound

keepsOthersActed(m, g) ==
  \A j \in others(m) : g.players[j].actedThisRound = game.players[j].actedThisRound

\* C3 as stated: a raise clears actedThisRound of every other non-folded
\* player; an accepted check, call or under-call never changes the
\* actedThisRound of any other player.
C3_RaiseReopensCallNever ==
  [][\A m \in PlayerActions :
       (accepted(m) /\ m.action \in {"check", "bet"} /\ game' = after(m))
         => /\ raiseReopens(m, game')
            /\ ~isRaise(m) => keepsOthersActed(m, game')]_vars

\* C3 amended: in every reachable state, handling an accepted raise clears
\* actedThisRound of every other non-folded player, and handling an accepted
\* check, call or under-call changes no other player's actedThisRound unless
\* it completes the round and a new betting phase is entered (whose entry
\* resets the flag of every player).
C3_RaiseReopensCallOnlyOnNewPhase ==
  \A m \in PlayerActions :
    (accepted(m) /\ m.action \in {"check", "bet"})
      => LET g == after(m)
         IN /\ raiseReopens(m, g)
            /\ (~isRaise(m) /\ ~entersBettingPhase(g)) => keepsOthersActed(m, g)

\* a player who has bet in this round is re-opened by the opponent's raise:
\* the round bet is below highBet and actedThisRound is false again
C3_Witness ==
  /\ twoSeated /\ inBetting(game)
  /\ \E j \in 1 .. 2 : /\ game.players[j].roundBet > 0
                       /\ game.players[j].roundBet < game.highBet
                       /\ ~game.players[j].actedThisRound
                       /\ game.players[3 - j].actedThisRound

(* -------------------------------- C4 ----------------------------------- *)
outOfTurn(m) == seatOf(m) - 1 # game.activePlayerIndex

\* C4: in every phase, a check, bet or fold of a player whose seat is not
\* activePlayerIndex leaves the whole game unchanged.
C4_OutOfTurnLeavesGame ==
  [][\A m \in PlayerActions :
       (twoSeated /\ outOfTurn(m) /\ game' = after(m)) => game' = game]_vars

(* -------------------------------- C5 ----------------------------------- *)
\* the amount of a bet is missing, not positive, or more than the chips
badAmount(m) ==
  \/ m.amount = <<>>
  \/ m.amount[1] <= 0
  \/ m.amount[1] > game.players[seatOf(m)].chips

illegalCheck(m) == game.players[seatOf(m)].roundBet < game.highBet

\* C5: in every reachable state, a bet whose amount is missing, <= 0 or above
\* the sender's chips, and a check sent while the sender's roundBet is below
\* highBet, leave the game unchanged.
C5_InvalidBetOrCheckLeavesGame ==
  \A m \in PlayerActions :
    ((m.action = "bet" /\ badAmount(m)) \/ (m.action = "check" /\ illegalCheck(m)))
      => after(m) = game

\* the player to act faces a bet (a check is illegal) and holds fewer chips
\* than an amount on offer (a bet above the chips exists), after having bet
C5_Witness ==
  /\ twoSeated /\ inBetting(game)
  /\ LET p == game.players[game.activePlayerIndex + 1]
     IN /\ p.roundBet < game.highBet
        /\ p.chips > 0
        /\ p.chips < MaxBetUnits * BetUnit

(* -------------------------------- C6 ----------------------------------- *)
\* the players left unfolded once the sender of m has folded
leftAfterFold(m) ==
  {j \in 1 .. Len(game.players) : ~game.players[j].folded /\ j # seatOf(m)}

foldOut(m) ==
  /\ m.action = "fold"
  /\ accepted(m)
  /\ Cardinality(leftAfterFold(m)) = 1

nextRoundMessage ==
  [gameId |-> GameId, playerId |-> HostId, action |-> "nextRound", amount |-> <<>>]

\* C6: in every reachable state, a fold that leaves exactly one non-folded
\* player ends the hand at once: that player's chips grow by exactly the pot
\* as it stood before the fold and nobody else's chips change, the pot is 0,
\* no card is dealt, the phase is idle, and it is still idle after
\* advancePhase and after nextRound.
C6_FoldOutEndsHand ==
  \A m \in PlayerActions :
    foldOut(m) =>
      LET g == after(m)
          w == CHOOSE j \in leftAfterFold(m) : TRUE
      IN /\ g.players[w].chips = game.players[w].chips + game.pot
         /\ \A j \in 1 .. Len(game.players) :
              j # w => g.players[j].chips = game.players[j].chips
         /\ g.pot = 0
         /\ g.deck = game.deck
         /\ g.community = <<>>
         /\ g.phase = "idle"
         /\ advancePhase(g) = g
         /\ handleAction(g, GameId, HostId, "nextRound", <<>>).phase = "idle"

\* a fold on the flop has just paid the pot of the first round to the player
\* who called: three community cards were dealt from the deck, the round bets
\* were reset on entering betting2, and the winner holds more than a stack
C6_Witness ==
  /\ twoSeated
  /\ game.phase = "idle"
  /\ game.pot = 0
  /\ Len(game.deck) = DeckSize - 7
  /\ \A j \in 1 .. 2 : game.players[j].roundBet = 0
  /\ game.foldWinner # <<>>
  /\ \E j \in 1 .. 2 : /\ game.players[j].id = game.foldWinner[1].id
                       /\ game.players[j].chips > DefaultStack

(* ----------------------------- C7, C8, C9 ------------------------------ *)
scoreOf(g, j) == evaluateHand(g.players[j].hand, g.community).score

bothLive(g) == Len(g.players) = 2 /\ \A j \in 1 .. 2 : ~g.players[j].folded

\* what handling m paid to seat j out of the pot: the chips after m, less the
\* chips before m without m's own stake
paid(m, g, j) == g.players[j].chips - (game.players[j].chips - staked(m, j))

\* an accepted check or bet of a two-player hand in a betting phase
roundAction(m) ==
  /\ bothLive(game) /\ inBetting(game)
  /\ m.action \in {"check", "bet"}
  /\ accepted(m)

\* C7: in every reachable state, when an accepted check or bet takes a hand
\* with two non-folded players to showdown and their scores differ, the
\* player with the higher score is paid exactly the pot and the other nothing.
C7_HigherScoreTakesPot ==
  \A m \in PlayerActions :
    roundAction(m) =>
      LET g == after(m)
      IN g.phase = "showdown" =>
           \A h \in 1 .. 2 :
             scoreOf(g, h) > scoreOf(g, 3 - h)
               => paid(m, g, h) = g.pot /\ paid(m, g, 3 - h) = 0

\* a showdown between two non-folded players with different scores has paid
\* a non-empty pot to the second seat
C7_Witness ==
  /\ bothLive(game)
  /\ game.phase = "showdown"
  /\ scoreOf(game, 2) > scoreOf(game, 1)
  /\ game.winner # <<>>
  /\ game.winner[1].potWon > 0
  /\ game.winner[1].id = GuestId

\* C8: when a check or bet takes a two-player hand to showdown and the two
\* scores are equal, the pot is split evenly (an odd chip to either seat).
C8_TieSplitsPot ==
  [][\A m \in PlayerActions :
       (roundAction(m) /\ game' = after(m) /\ game'.phase = "showdown"
          /\ scoreOf(game', 1) = scoreOf(game', 2))
         => /\ paid(m, game', 1) + paid(m, game', 2) = game'.pot
            /\ paid(m, game', 1) - paid(m, game', 2) \in {-1, 0, 1}]_vars

\* C9: every winner resolution -- the fold-out and the showdown -- pays the
\* pot and leaves pot = 0 in the state that follows.
C9_PotZeroAfterResolution ==
  [][\A m \in PlayerActions :
       (twoSeated /\ inBetting(game) /\ accepted(m) /\ game' = after(m)
          /\ game'.phase \in {"idle", "showdown"})
         => game'.pot = 0]_vars

(* -------------------------------- C10 ---------------------------------- *)
\* C10: a nextRound received while the phase is not showdown is a no-op.
C10_NextRoundNoOpOutsideShowdown ==
  [][(twoSeated /\ game.phase # "showdown" /\ game' = after(nextRoundMessage))
       => game' = game]_vars

(* -------------------------------- C11 ---------------------------------- *)
\* the phases a game may rest in between two commands
restingPhases == {"idle", "betting1", "betting2", "betting3", "betting4", "showdown"}

\* C11: flop, turn and river are never a stopping state: after every command
\* the phase of the server's game and the phase of the local game are each
\* one of idle, betting1, betting2, betting3, betting4, showdown.
C11_DealPhasesNeverObserved ==
  /\ game.phase \in restingPhases
  /\ local.phase \in restingPhases

(* -------------------------------- C12 ---------------------------------- *)
\* the betting phase that follows phase p in the cycle; showdown after betting4
phaseAfter(p) ==
  CASE p = "idle" -> "betting1" [] p = "betting1" -> "betting2"
    [] p = "betting2" -> "betting3" [] p = "betting3" -> "betting4"
    [] p = "betting4" -> "showdown" [] p = "showdown" -> "idle"

\* once m's stake has left its sender's chips, every non-folded player is
\* all-in
allInWith(m) ==
  \A j \in 1 .. Len(game.players) :
    ~game.players[j].folded => game.players[j].chips - staked(m, j) = 0

\* C12: in a two-player game the phase changes only along idle -> betting1 ->
\* betting2 -> betting3 -> betting4 -> showdown -> idle, except that a
\* fold-out takes a betting phase to idle and an all-in takes a betting phase
\* to showdown.
C12_PhaseFollowsCycle ==
  [][(twoSeated /\ game'.phase # game.phase)
       => \/ game'.phase = phaseAfter(game.phase)
          \/ /\ inBetting(game) /\ game'.phase = "showdown"
             /\ \E m \in PlayerActions : allInWith(m) /\ game' = after(m)
          \/ /\ inBetting(game) /\ game'.phase = "idle"
             /\ \E m \in PlayerActions : foldOut(m) /\ game' = after(m)]_vars

(* -------------------------------- C13 ---------------------------------- *)
\* the greatest of the values f[j] for j in the non-empty set S
greatest(f, S) == f[CHOOSE j \in S : \A k \in S : f[j] >= f[k]]

\* seats of ps that have not folded
liveSeats(ps) == {j \in 1 .. Len(ps) : ~ps[j].folded}

\* C13 for the server: while some player is non-folded, highBet is the
\* maximum roundBet among the non-folded players.
serverHighBetIsMax ==
  liveSeats(game.players) # {}
    => game.highBet = greatest([j \in 1 .. Len(game.players) |-> game.players[j].roundBet],
                               liveSeats(game.players))

\* C13 for the local game, whose Player.bet is the bet of the current round
localHighBetIsMax ==
  liveSeats(local.players) # {}
    => local.highBet = greatest([j \in 1 .. Len(local.players) |-> local.players[j].bet],
                                liveSeats(local.players))

\* C13: in every reachable state highBet equals the maximum round bet among
\* the non-folded players.
C13_HighBetIsMaxRoundBet == serverHighBetIsMax /\ localHighBetIsMax

(* -------------------------------- C14 ---------------------------------- *)
\* some non-folded player of the game who still has chips has not acted
someoneToAct ==
  \E j \in liveSeats(game.players) :
    game.players[j].chips > 0 /\ ~game.players[j].actedThisRound

\* C14 as stated: allBetsMatched is false in every state in which some
\* non-folded player with chips > 0 has actedThisRound = false.
C14_UnactedPlayerBlocksMatch == someoneToAct => ~allBetsMatched(game)

\* C14 amended: allBetsMatched is false in every state in which at least two
\* players are non-folded and some non-folded player with chips > 0 has
\* actedThisRound = false.
C14_UnactedPlayerBlocksMatchOfTwo ==
  (Cardinality(liveSeats(game.players)) >= 2 /\ someoneToAct) => ~allBetsMatched(game)

\* in a betting phase both players are in the hand with chips and equal round
\* bets; the first seat has acted and the second has not
C14_Witness ==
  /\ bothLive(game) /\ inBetting(game)
  /\ game.players[1].roundBet = game.players[2].roundBet
  /\ game.players[1].chips > 0 /\ game.players[2].chips > 0
  /\ game.players[1].actedThisRound
  /\ ~game.players[2].actedThisRound

(* -------------------------------- C15 ---------------------------------- *)
RECURSIVE handsOf(_)
\* the hole cards of the players ps, seat after seat
handsOf(ps) == IF ps = <<>> THEN <<>> ELSE ps[1].hand \o handsOf(Tail(ps))

cardsOf(s) == {s[i] : i \in 1 .. Len(s)}

noCardTwice(s) == Cardinality(cardsOf(s)) = Len(s)

\* the deck holds no card of a hand or of the community, and no card is
\* twice among the hands and the community
dealtApart(deck, ps, community) ==
  /\ cardsOf(deck) \cap cardsOf(handsOf(ps) \o community) = {}
  /\ noCardTwice(handsOf(ps) \o community)

serverDealtApart == dealtApart(game.deck, game.players, game.community)

localDealtApart == dealtApart(local.deck, local.players, local.community)

\* C15: in every reachable state the remaining deck contains no card of any
\* hand or of the community, and no card is twice among them.
C15_DeckDisjointFromDealtCards == serverDealtApart /\ localDealtApart

(* -------------------------------- C16 ---------------------------------- *)
\* s holds each of the n cards 1 .. n exactly once
isPermutation(s, n) == Len(s) = n /\ cardsOf(s) = 1 .. n

\* the deck shuffleDeck returned for the local game in progress: the four
\* cards dealt from its front, then the rest kept in the state
localShuffled == handsOf(local.players) \o local.deck

\* C16: every deck shuffled for a new hand is a permutation of the canonical
\* 52 cards: the decks createDeck returns on the server, and the deck
\* shuffleDeck returned for the local game in progress.
C16_ShuffleIsPermutation ==
  /\ \A deck \in createDeck : isPermutation(deck, DeckSize)
  /\ local.players # <<>> => isPermutation(localShuffled, Len(DECK))

\* a local game is in progress whose deck the shuffle has put in another
\* order than DECK
C16_Witness ==
  /\ local.players # <<>>
  /\ Len(localShuffled) = Len(DECK)
  /\ localShuffled # DECK

(* -------------------------------- C17 ---------------------------------- *)
\* other hole cards the opponent could hold: two cards still in the deck
otherHands(g) ==
  IF Len(g.deck) < 2 THEN {}
  ELSE {<<g.deck[1], g.deck[2]>>, <<g.deck[2], g.deck[1]>>}

\* C17: during a hand, before showdown, the snapshot sent to a player is the
\* same in two games that differ only in the opponent's hole cards.
C17_SnapshotHidesOpponentHand ==
  (twoSeated /\ inBetting(game))
    => \A j \in 1 .. 2 : \A h \in otherHands(game) :
         broadcastGameState([game EXCEPT !.players[3 - j].hand = h])[j]
           = broadcastGameState(game)[j]

(* -------------------------------- C18 ---------------------------------- *)
\* C18: commands of a game are serialized: while a startGame handler waits
\* between its mutations (the hand is dealt, game.yellowSessionId is yet to
\* be written) no other command changes the game.
C18_NoCommandInsideAnother ==
  [][suspended.startGame > 0 => game' = game]_vars

(* --------------------------- CPU-turn timer ----------------------------- *)
\* Every human action leaves actionInProgress set, and only the follow-up of
\* a fired CPU timer clears it; createLocalGame and reset clear it with the
\* human to act.  The effect therefore never finds a robot to act with
\* actionInProgress false: no timer is pending in any state of LocalSpec.
cpuTimerNeverPending == cpuTimer = <<>>

(* -------------------------------- C20 ---------------------------------- *)
\* the cards hold A, K, Q, J and 10 of one suit
hasRoyalFlush(cards) ==
  \E t \in 1 .. Len(suits) : \A r \in {"A", "K", "Q", "J", "10"} :
    \E n \in 1 .. Len(cards) : cardSuit(cards[n]) = suits[t] /\ cardRank(cards[n]) = r

\* C20: for seven cards that contain A, K, Q, J, 10 of one suit,
\* evaluateHand returns the label "Straight Flush".
C20_RoyalIsStraightFlush ==
  (evalResult # <<>> /\ hasRoyalFlush(evalInput[1].hand \o evalInput[1].community))
    => evalResult[1].handType = "Straight Flush"

(* ------------------- notions of the evaluator's claims ------------------ *)
\* the cards under evaluation
evalCards == evalInput[1].hand \o evalInput[1].community

valueOf(c) == getCardValue(cardRank(c))

\* how many of the cards have value v, and how many are of suit t
countOfValue(cards, v) == Cardinality({n \in 1 .. Len(cards) : valueOf(cards[n]) = v})
countOfSuit(cards, t) == Cardinality({n \in 1 .. Len(cards) : cardSuit(cards[n]) = t})

CardValues == 2 .. 14

hasFourOfAKind(cards) == \E v \in CardValues : countOfValue(cards, v) >= 4

\* three cards of one rank and at least two cards of a different rank
hasTripleAndPair(cards) ==
  \E a \in CardValues, b \in CardValues :
    a # b /\ countOfValue(cards, a) >= 3 /\ countOfValue(cards, b) >= 2

hasFlush(cards) == \E t \in 1 .. Len(suits) : countOfSuit(cards, suits[t]) >= 5

\* the distinct values hold the five values ending at h, the ace standing
\* below the 2 for h = 5 (the wheel)
straightTo(cards, h) ==
  \A d \in 0 .. 4 : countOfValue(cards, IF h - d = 1 THEN 14 ELSE h - d) >= 1

hasStraight(cards) == \E h \in 5 .. 14 : straightTo(cards, h)

greatestOf(S) == CHOOSE v \in S : \A w \in S : w <= v

(* -------------------------------- C21 ---------------------------------- *)
\* C21: for 5 to 7 cards that hold three cards of one rank and at least two
\* cards of a different rank, and no four of a kind, evaluateHand returns
\* the label "Full House".
C21_TripleAndPairIsFullHouse ==
  (/\ evalResult # <<>>
   /\ Len(evalCards) \in 5 .. 7
   /\ hasTripleAndPair(evalCards)
   /\ ~hasFourOfAKind(evalCards))
    => evalResult[1].handType = "Full House"

(* -------------------------------- C22 ---------------------------------- *)
\* the cards hold a straight (the wheel included) and no flush, full house
\* or four of a kind
plainStraight(cards) ==
  /\ hasStraight(cards)
  /\ ~hasFlush(cards)
  /\ ~hasTripleAndPair(cards)
  /\ ~hasFourOfAKind(cards)

\* the server's evaluateHand labels such cards "Straight"
serverLabelsStraight ==
  (evalResult # <<>> /\ plainStraight(evalCards))
    => evalResult[1].handType = "Straight"

\* the script's evaluateHand labels such cards "Straight"
scriptLabelsStraight ==
  (scriptResult # <<>> /\ plainStraight(evalCards))
    => scriptResult[1].name = "Straight"

\* C22: for cards whose distinct values hold five consecutive values or
\* A, 2, 3, 4, 5, with no flush, full house or four of a kind, the hand
\* evaluator (of the server and of the script) returns the label "Straight".
C22_StraightIsLabelledStraight == serverLabelsStraight /\ scriptLabelsStraight

(* -------------------------------- C23 ---------------------------------- *)
\* the base of a category's scores
categoryBase(handType) ==
  CASE handType = "Four of a Kind" -> 800000
    [] handType = "Full House" -> 700000
    [] handType = "Flush" -> 600000
    [] handType = "Straight" -> 500000
    [] handType = "Three of a Kind" -> 400000
    [] handType = "Two Pair" -> 300000
    [] handType = "Pair" -> 200000
    [] handType = "High Card" -> 100000

\* the highest value among the cards that form the category: of the four,
\* of the triple, of the flush's suit, the top of the straight, of the
\* higher pair, of the pair, of all the cards
categoryRank(cards, handType) ==
  LET withCount(k) == {v \in CardValues : countOfValue(cards, v) >= k}
      flushSuits == {t \in 1 .. Len(suits) : countOfSuit(cards, suits[t]) >= 5}
  IN CASE handType = "Four of a Kind" -> greatestOf(withCount(4))
       [] handType = "Full House" -> greatestOf(withCount(3))
       [] handType = "Flush" ->
            greatestOf({valueOf(cards[n]) :
                          n \in {m \in 1 .. Len(cards) :
                                   \E t \in flushSuits : cardSuit(cards[m]) = suits[t]}})
       [] handType = "Straight" -> greatestOf({h \in 5 .. 14 : straightTo(cards, h)})
       [] handType = "Three of a Kind" -> greatestOf(withCount(3))
       [] handType = "Two Pair" -> greatestOf(withCount(2))
       [] handType = "Pair" -> greatestOf(withCount(2))
       [] handType = "High Card" -> greatestOf(withCount(1))

\* C23: the score evaluateHand returns is the base of the category plus the
\* value of the highest rank among the cards that form the category.
C23_ScoreIsBasePlusCategoryRank ==
  evalResult # <<>>
    => evalResult[1].score
         = categoryBase(evalResult[1].handType)
           + categoryRank(evalCards, evalResult[1].handType)

(* -------------------------------- C24 ---------------------------------- *)
\* the seat of the player a result summary names
seatOfId(g, id) == findIndex(g.players, id) + 1

\* the summary's amount is what handling m paid to the player it names, and
\* nobody else was paid
summaryMatches(m, g, summary) ==
  /\ summary # <<>>
  /\ seatOfId(g, summary[1].id) # 0
  /\ \A j \in 1 .. Len(g.players) :
       paid(m, g, j) = IF j = seatOfId(g, summary[1].id) THEN summary[1].potWon ELSE 0

\* C24: every winner resolution of a two-player hand records a summary whose
\* amount won is the amount added to the winner's chips and whose id is the
\* player who received it: game.foldWinner on a fold-out, game.winner at a
\* showdown.
C24_SummaryMatchesPayout ==
  \A m \in PlayerActions :
    (twoSeated /\ inBetting(game) /\ accepted(m)) =>
      LET g == after(m)
      IN /\ foldOut(m) => summaryMatches(m, g, g.foldWinner)
         /\ g.phase = "showdown" => summaryMatches(m, g, g.winner)

(* -------------------------------- C25 ---------------------------------- *)
\* m names an unknown game, or a player who is not in the game
unknownGameOrPlayer(m) ==
  m.gameId # GameId \/ findIndex(game.players, m.playerId) = -1

\* C25: an action message that names an unknown game id or a player id that
\* is not in the game changes nothing, whatever its action.
C25_UnknownSenderLeavesGame ==
  \A m \in ActionPayloads : unknownGameOrPlayer(m) => after(m) = game

(* -------------------------------- C26 ---------------------------------- *)
\* the handler turns m down: unknown game or player, wrong turn, illegal
\* check or invalid bet amount
rejected(m) ==
  \/ m.gameId # GameId
  \/ /\ m.action # "nextRound"
     /\ \/ findIndex(game.players, m.playerId) = -1
        \/ ~accepted(m)

\* C26: every rejected action is answered by exactly an error report to the
\* connection it came from, and no message goes to any player.
C26_RejectionReportedToSenderOnly ==
  \A m \in ActionPayloads :
    rejected(m) =>
      LET sent == actionReplies(game, m.gameId, m.playerId, m.action, m.amount)
      IN /\ Len(sent) = 1
         /\ sent[1].to = "origin"
         /\ sent[1].type = "error"

(* -------------------------------- C27 ---------------------------------- *)
\* the blinds of the scenario
smallBlind == minBet \div 2
bigBlind == minBet

\* a hand of two players has just been dealt, each with the default stack
\* when the hand began
handJustDealt ==
  /\ twoSeated
  /\ game.phase = "betting1"
  /\ game.community = <<>>
  /\ \A j \in 1 .. 2 : /\ Len(game.players[j].hand) = 2
                        /\ ~game.players[j].actedThisRound
                        /\ ~game.players[j].folded
                        /\ game.players[j].chips + game.players[j].roundBet = DefaultStack

\* the game after the player to act has checked, n times over or until the
\* betting is over
RECURSIVE checkedOn(_, _)
checkedOn(g, n) ==
  IF n = 0 \/ ~inBetting(g) THEN g
  ELSE checkedOn(handleAction(g, GameId, g.players[g.activePlayerIndex + 1].id,
                              "check", <<>>), n - 1)

labelOf(g, j) == evaluateHand(g.players[j].hand, g.community).handType

\* C27: when both players, starting with 1000 chips and blinds of 10 and
\* 20, check on every street, the pot at showdown is the sum of the blinds
\* and the showdown awards it to the player whose hand is of the higher
\* category.
C27_CheckedThroughPotIsBlinds ==
  handJustDealt =>
    LET g == checkedOn(game, 2 * Len(bettingPhases))
    IN /\ g.phase = "showdown"
       /\ g.pot = smallBlind + bigBlind
       /\ \A h \in 1 .. 2 :
            categoryBase(labelOf(g, h)) > categoryBase(labelOf(g, 3 - h))
              => /\ g.winner # <<>>
                 /\ g.winner[1].id = g.players[h].id
                 /\ g.winner[1].potWon = g.pot
                 /\ g.players[h].chips = game.players[h].chips + g.pot

(* -------------------------------- C28 ---------------------------------- *)
\* the allocations name the players with a wallet, a player who holds chips
\* is allocated something, and the amounts are in the proportion of the
\* chips
allocationsFollowChips(a, g) ==
  LET withWallet == playersWithWallets(g)
  IN /\ Len(a) = Len(withWallet)
     /\ \A k \in 1 .. Len(a) :
          /\ a[k].walletAddress = withWallet[k].walletAddress[1]
          /\ withWallet[k].chips > 0 => a[k].millionths > 0
     /\ \A k \in 1 .. Len(a), l \in 1 .. Len(a) :
          a[k].millionths * withWallet[l].chips = a[l].millionths * withWallet[k].chips

\* C28: the allocations handed to settlePokerSession at a showdown hold one
\* entry per player with a wallet, with an amount that corresponds to the
\* player's final chips; a player who holds chips is not allocated 0.
C28_AllocationsFollowChips ==
  \A m \in HandPayloads :
    (inBetting(game)
       /\ settleAwaits(game, yellowSessionId, appSessionId,
                       m.gameId, m.playerId, m.action, m.amount))
      => allocationsFollowChips(finalAllocations(after(m)), after(m))

(* -------------------------------- C29 ---------------------------------- *)
\* the step is a settlement that failed
settlementFails ==
  /\ suspended'.settlement < suspended.settlement
  /\ settlementLog' = "Yellow settlement failed"

\* the game takes a nextRound and deals a further hand
playsOn(g) ==
  LET r == handleAction(g, GameId, HostId, "nextRound", <<>>)
  IN /\ r.phase = "idle"
     /\ \A deck \in createDeck :
          LET n == startGame(r, GameId, HostId, deck)
          IN /\ n.phase = "betting1"
             /\ \A j \in 1 .. Len(n.players) : Len(n.players[j].hand) = 2

\* C29: a failure of settlePokerSession at a showdown (a rejection or the
\* timeout) leaves the game -- chips, pot, phase, recorded winner -- as the
\* winner resolution set it, and the game still takes nextRound and a
\* further hand.
C29_SettlementFailureKeepsGame ==
  [][settlementFails => (game' = game /\ playsOn(game'))]_vars

\* a settlement has failed and the showdown it followed still stands: the
\* winner is recorded and holds the pot
C29_Witness ==
  /\ settlementLog = "Yellow settlement failed"
  /\ suspended.settlement = 0
  /\ game.phase = "showdown"
  /\ game.winner # <<>>
  /\ game.winner[1].potWon > 0
  /\ \E j \in 1 .. 2 : /\ game.players[j].id = game.winner[1].id
                        /\ game.players[j].chips = game.winner[1].chips

(* -------------------------------- C30 ---------------------------------- *)
\* C30: whenever a hand is in progress (the phase is not idle) the game has
\* exactly two players.
C30_HandHasTwoPlayers == game.phase # "idle" => Len(game.players) = 2

(* -------------------------------- C31 ---------------------------------- *)
\* the server's game g after a nextRound: everything of the hand is cleared,
\* a player without chips has the default stack, the others keep theirs
serverRoundCleared(before, g) ==
  /\ g.phase = "idle" /\ g.pot = 0 /\ g.highBet = 0 /\ g.community = <<>>
  /\ \A j \in 1 .. Len(g.players) :
       /\ g.players[j].bet = 0 /\ g.players[j].roundBet = 0
       /\ ~g.players[j].folded /\ g.players[j].hand = <<>>
       /\ g.players[j].chips = IF before.players[j].chips = 0 THEN DefaultStack
                                ELSE before.players[j].chips

\* the same for the state of the local game, whose players have no roundBet
localRoundCleared(before, s) ==
  /\ s.phase = "idle" /\ s.pot = 0 /\ s.highBet = 0 /\ s.community = <<>>
  /\ \A j \in 1 .. Len(s.players) :
       /\ s.players[j].bet = 0
       /\ ~s.players[j].folded /\ s.players[j].hand = <<>>
       /\ s.players[j].chips = IF before.players[j].chips = 0 THEN DefaultStack
                                ELSE before.players[j].chips

serverNextRoundClears ==
  game.phase = "showdown" => serverRoundCleared(game, after(nextRoundMessage))

localNextRoundClears ==
  local.phase = "showdown" => localRoundCleared(local, localNextRound(local))

\* C31: a nextRound applied in showdown leaves phase idle, pot 0, highBet 0,
\* no community card, every player with bet 0, roundBet 0, not folded and
\* without a hand; a player who had 0 chips has the default stack and every
\* other player's chips are unchanged -- in the server's game and in the
\* local game.
C31_NextRoundClearsHand == serverNextRoundClears /\ localNextRoundClears

(* -------------------------------- C36 ---------------------------------- *)
\* what the claim lists of the server's game: every player's chips, roundBet
\* and folded flag, the pot, the recorded winner and the phase
tableOf(g) ==
  [chips |-> [j \in 1 .. Len(g.players) |-> g.players[j].chips],
   roundBet |-> [j \in 1 .. Len(g.players) |-> g.players[j].roundBet],
   folded |-> [j \in 1 .. Len(g.players) |-> g.players[j].folded],
   pot |-> g.pot, winner |-> g.winner, foldWinner |-> g.foldWinner,
   phase |-> g.phase]

outsideHand(phase) == phase \in {"idle", "showdown"}

serverIgnoresOutsideHand ==
  \A m \in PlayerActions : outsideHand(game.phase) => tableOf(after(m)) = tableOf(game)

localIgnoresOutsideHand ==
  outsideHand(local.phase) =>
    /\ localFold(local) = local
    /\ localCheck(local) = local
    /\ \A k \in 1 .. MaxBetUnits : localBet(local, k * BetUnit) = local

\* C36: a check, bet or fold received while the phase is idle or showdown
\* changes no player's chips, roundBet or folded flag, nor the pot, the
\* recorded winner or the phase -- in the server's game and in the local one.
C36_NoActionOutsideHand == serverIgnoresOutsideHand /\ localIgnoresOutsideHand

(* -------------------------------- C37 ---------------------------------- *)
\* the game at the moment the handler asks allBetsMatched: the accepted check
\* or bet is recorded and the turn has moved on
recordedAction(m) ==
  advanceActivePlayer(IF m.action = "check" THEN checked(game, seatOf(m))
                      ELSE placed(game, seatOf(m), m.amount))

\* the handler of m declares the betting round complete
roundDeclaredComplete(m) ==
  /\ inBetting(game)
  /\ m.action \in {"check", "bet"}
  /\ accepted(m)
  /\ allBetsMatched(recordedAction(m))

everyStackMatchesHighBet(g) ==
  \A j \in 1 .. Len(g.players) :
    (~g.players[j].folded /\ g.players[j].chips > 0) => g.players[j].roundBet = g.highBet

\* C37: whenever an accepted check or bet makes the handler declare the
\* betting round complete, every non-folded player who still has chips has
\* put in exactly highBet in this round.
C37_RoundCompleteOnlyWhenMatched ==
  \A m \in PlayerActions :
    roundDeclaredComplete(m) => everyStackMatchesHighBet(recordedAction(m))

(* -------------------------------- C38 ---------------------------------- *)
localInHand == ~outsideHand(local.phase)

\* the human's fold, check and bet are applied: the guard they share is open
\* and the turn is the human's
humanCanAct ==
  /\ ~localBusy(local)
  /\ ~local.players[local.activePlayerIndex + 1].robot

\* the CPU's timer is pending: it will act, and its follow-up is the only
\* code that sets actionInProgress back to false during a hand
cpuWillAct == cpuTimer # <<>>

\* C38: in the local game, during a hand, whenever actionInProgress is true
\* the CPU's action (whose follow-up resets the flag) is pending, and in
\* every state of a hand either the human can act or the CPU is about to:
\* the hand never stands in a state where neither player can act.
C38_LocalHandNeverStuck ==
  localInHand =>
    /\ local.actionInProgress => cpuWillAct
    /\ humanCanAct \/ cpuWillAct

(* -------------------------------- C39 ---------------------------------- *)
\* the seat whose bet the local bet() records: the player whose id is turn
bettorSeat(s) == CHOOSE i \in 1 .. Len(s.players) : s.players[i].id = s.turn

\* bet(amount) is applied to the local game in its present state
localBetApplied(amount) == ~localBusy(local) /\ localBet(local, amount) # local

\* C39: every bet that the local game applies has 0 < amount <= the
\* bettor's chips, and takes from the bettor's chips exactly what it adds to
\* the pot.
C39_LocalBetWithinChips ==
  \A amount \in LocalAmounts :
    localBetApplied(amount) =>
      LET i == bettorSeat(local)
          s == localBet(local, amount)
      IN /\ 0 < amount /\ amount <= local.players[i].chips
         /\ local.players[i].chips - s.players[i].chips = s.pot - local.pot

(* -------------------------------- C40 ---------------------------------- *)
sessionOpen == appSessionId # <<>>

\* the handler of m ends the hand: the game leaves the betting phases, by a
\* showdown or by a fold that leaves one player
endsHand(m) ==
  /\ inBetting(game)
  /\ suspended.startGame = 0
  /\ ~inBetting(after(m))

\* the host's startGame is handled in this state and calls startPokerSession
startsSession ==
  /\ game.phase = "idle"
  /\ suspended.startGame = 0
  /\ startAwaits(game, GameId, HostId)

\* C40: with a settlement session open, every message that ends the hand --
\* by showdown or by fold-out -- makes the one settle call that closes it;
\* at most one settle call is under way at a time; and no startGame opens a
\* session while the previous one is still open.
C40_SessionClosedOncePerHand ==
  /\ \A m \in HandPayloads :
       (sessionOpen /\ endsHand(m)) =>
         settleAwaits(game, yellowSessionId, appSessionId,
                      m.gameId, m.playerId, m.action, m.amount)
  /\ suspended.settlement <= 1
  /\ startsSession => ~sessionOpen

(* -------------------------------- C33 ---------------------------------- *)
\* the step enters a betting phase: the phase changes to one, or a startGame
\* is handled (which enters betting1 from whatever phase the game is in)
entersBetting ==
  /\ inBetting(game')
  /\ \/ game'.phase # game.phase
     \/ /\ game' # game
        /\ \E deck \in createDeck : game' = startGame(game, GameId, HostId, deck)

\* the betting round has just begun: nobody has bet or acted in it, highBet
\* is 0 and the turn is at the first seat, whatever the phase
roundJustBegun(g) ==
  /\ \A j \in 1 .. Len(g.players) :
       g.players[j].roundBet = 0 /\ ~g.players[j].actedThisRound
  /\ g.highBet = 0
  /\ g.activePlayerIndex = 0

\* C33: every step that enters betting1, betting2, betting3 or betting4
\* leaves every player with roundBet 0 and actedThisRound false, highBet 0,
\* and activePlayerIndex at the same seat (the first) whatever happened
\* before.
C33_BettingEntryResetsRound == [][entersBetting => roundJustBegun(game')]_vars

\* betting2 has just been entered after a betting1 in which chips were bet
C33_Witness ==
  /\ twoSeated
  /\ game.phase = "betting2"
  /\ game.pot > 0
  /\ roundJustBegun(game)

(* -------------------------------- C34 ---------------------------------- *)
communityCount == Len(game.community)

\* C34: the phase fixes the number of community cards: none in betting1, 3
\* in betting2, 4 in betting3, 5 in betting4 and 5 in showdown, however the
\* showdown was reached; there are never more than 5.
C34_CommunityCountByPhase ==
  /\ game.phase = "betting1" => communityCount = 0
  /\ game.phase = "betting2" => communityCount = 3
  /\ game.phase = "betting3" => communityCount = 4
  /\ game.phase = "betting4" => communityCount = 5
  /\ game.phase = "showdown" => communityCount = 5
  /\ communityCount <= 5

\* a showdown reached from betting1, both players all-in: their round bets
\* were never reset, and the five cards lie on the table
C34_Witness ==
  /\ twoSeated
  /\ game.phase = "showdown"
  /\ \A j \in 1 .. 2 : game.players[j].roundBet = DefaultStack
  /\ communityCount = 5

(* -------------------------------- C35 ---------------------------------- *)
\* the game with the accepted check or bet m recorded, before the turn moves
recorded(m) ==
  IF m.action = "check" THEN checked(game, seatOf(m)) ELSE placed(game, seatOf(m), m.amount)

\* seat (0-based) of g holds a player who can still act
canStillAct(g, seat) == ~g.players[seat + 1].folded /\ g.players[seat + 1].chips > 0

stillIn(g) == {j \in 1 .. Len(g.players) : ~g.players[j].folded}

\* the seat d places after the active one, wrapping
seatAfter(g, d) == (g.activePlayerIndex + d) % Len(g.players)

\* where the turn goes from g: the nearest seat after the active one,
\* wrapping, whose player can still act; the active seat itself when there
\* is none or when at most one player has not folded
nextToAct(g) ==
  LET n == Len(g.players)
      ahead == {d \in 1 .. n : canStillAct(g, seatAfter(g, d))}
  IN IF Cardinality(stillIn(g)) <= 1 \/ ahead = {} THEN g.activePlayerIndex
     ELSE seatAfter(g, CHOOSE d \in ahead : \A e \in ahead : d <= e)

turnMoves(m) ==
  /\ inBetting(game)
  /\ m.action \in {"check", "bet"}
  /\ accepted(m)

\* C35: after an accepted check or bet the turn is at the next seat,
\* wrapping, whose player is neither folded nor out of chips, and stays
\* where it was when no such seat exists or at most one player has not
\* folded; that is the active seat the message leaves behind unless the
\* betting round is complete.
C35_TurnGoesToNextWhoCanAct ==
  \A m \in PlayerActions :
    turnMoves(m) =>
      LET g == recorded(m)
      IN /\ advanceActivePlayer(g).activePlayerIndex = nextToAct(g)
         /\ ~allBetsMatched(advanceActivePlayer(g)) =>
              after(m).activePlayerIndex = nextToAct(g)

\* the other player is all-in and not folded: the bet of the player to act
\* finds nobody else to pass the turn to, which stays
C35_Witness ==
  /\ twoSeated /\ bothLive(game)
  /\ \E m \in PlayerActions :
       /\ turnMoves(m)
       /\ m.action = "bet"
       /\ game.players[3 - seatOf(m)].chips = 0
       /\ recorded(m).players[seatOf(m)].chips > 0
       /\ nextToAct(recorded(m)) = game.activePlayerIndex

(* -------------------------------- C32 ---------------------------------- *)
\* a step in which the server applies a check, a bet or a fold
acceptedAction == LiveAction \/ DustBet

\* C32: every hand terminates: there is no infinite sequence of accepted
\* checks, bets and folds during which the game stays in betting phases;
\* when accepted actions keep coming, a game in a betting phase leaves the
\* betting phases (for showdown or idle).
C32_HandTerminates ==
  ([]<><<acceptedAction>>_vars) => (inBetting(game) ~> ~inBetting(game))

====
